---- MODULE Spec2Model ----
(***************************************************************************)
(* Model of dkg/assets.py: ContentAsset.create / update / get and the      *)
(* polling method get_operation_result, with the ledger and the node       *)
(* network as nondeterministic collaborators.  Every external call the     *)
(* code makes is appended to `log` together with its outcome.              *)
(***************************************************************************)
EXTENDS Integers, Sequences, FiniteSets, TLC

VARIABLES
    pc,          \* position of the running call ("idle", a stage, "done")
    call,        \* arguments of the running call
    assertions,  \* local `assertions` (result of _process_content)
    tokenAmount, \* local `token_amount` after defaulting
    tokenId,     \* local `token_id`
    storageAddress,    \* local `content_asset_storage_address`
    opId,        \* local `operation_id`
    attempts,    \* retry wrapper: iterations of range(max_retries) consumed
    delay,       \* retry wrapper: `_delay`
    sleeps,      \* delays slept by the retry wrapper in the current await
    allowance,   \* ledger: allowance of the service-agreement spender
    latestAssertionId, \* ledger: latest assertion id recorded for the asset
    log,         \* external calls made by the running call, in order
    outcome,     \* what the running call delivered to its caller
    saved        \* the locals of the other invocation, which is not running now

vars == <<pc, call, assertions, tokenAmount, tokenId, storageAddress, opId, attempts, delay,
          sleeps, allowance, latestAssertionId, log, outcome, saved>>

----------------------------------------------------------------------------
(* Bounds of the model *)

MaxToken == 1       \* caller-supplied token amounts are 0..MaxToken
MaxDigit == 1       \* digits of a bidSuggestion string are 0..MaxDigit
MaxTime == 1        \* block timestamps are 0..MaxTime
MaxEscrow == 1      \* tokensInfo[0] is 0..MaxEscrow
InitialAllowance == 1  \* allowance already granted to the spender before the call
MaxHistory == 3     \* _process_content calls made in a row on one ContentAsset
MaxConcPending == 1 \* Pending answers per operation when two calls run concurrently

(* Program constants *)

HASH_FUNCTION_ID == 1
SCORE_FUNCTION_ID == 1
MaxRetriesOffByOne == 5 + 1
MaxRetries == 5
BaseDelay == 1
Backoff == 2
RetryCatchAll == {"OperationNotFinished", "OperationFailed", "TransportError"}
RetryCatch == {"OperationNotFinished"}

(* Parameters of the collaborators that are not part of assets.py *)

HashMod == 97
ChunkSize == 32
PRIVATE_ASSERTION_PREDICATE == 50

None == -1
ChainName == "otp"
StorageAddress == "0xStorage"
ServiceAgreementV1 == "0xServiceAgreementV1"

----------------------------------------------------------------------------
(* Pure helpers *)

Max0(x) == IF x > 0 THEN x ELSE 0

RECURSIVE Insert(_, _)
Insert(x, s) ==
    IF s = <<>> THEN <<x>>
    ELSE IF x = Head(s) THEN s
    ELSE IF x < Head(s) THEN <<x>> \o s
    ELSE <<Head(s)>> \o Insert(x, Tail(s))

RECURSIVE Canonical(_)
Canonical(s) == IF s = <<>> THEN <<>> ELSE Insert(Head(s), Canonical(Tail(s)))

\* dkg.utils.rdf.normalize_dataset: canonical (sorted, duplicate-free) statement
\* sequence; "err" when no statement is extracted.
normalize_dataset(graph) ==
    IF graph = <<>> THEN [err |-> "ContentError", quads |-> <<>>]
    ELSE [err |-> "", quads |-> Canonical(graph)]

keccak(a, b) == (31 * a + 7 * b + 3) % HashMod

\* dkg.utils.merkle.hash_assertion_with_indexes: leaf i = hash(statement, i)
hash_assertion_with_indexes(quads) ==
    [i \in 1..Len(quads) |-> keccak(quads[i], i - 1)]

HashPair(a, b) == IF a <= b THEN keccak(a, b) ELSE keccak(b, a)

MerkleLevel(level) ==
    [i \in 1..((Len(level) + 1) \div 2) |->
        IF 2 * i <= Len(level) THEN HashPair(level[2 * i - 1], level[2 * i])
        ELSE level[2 * i - 1]]

RECURSIVE MerkleRoot(_)
MerkleRoot(level) ==
    IF Len(level) = 0 THEN 0
    ELSE IF Len(level) = 1 THEN level[1]
    ELSE MerkleRoot(MerkleLevel(level))

\* Web3.to_hex / Web3.to_bytes(hexstr=...)
to_hex(bytes) == <<"0x", bytes>>

to_bytes(hexstr) == hexstr[2]

\* MerkleTree(hash_assertion_with_indexes(quads), sort_pairs=True).root
Root(quads) == to_hex(MerkleRoot(hash_assertion_with_indexes(quads)))

RECURSIVE ByteLength(_)
ByteLength(quads) ==
    IF quads = <<>> THEN 0 ELSE (1 + (Head(quads) % 3)) + ByteLength(Tail(quads))

\* dkg.utils.metadata.generate_assertion_metadata
generate_assertion_metadata(quads) ==
    [size |-> ByteLength(quads),
     triples_number |-> Len(quads),
     chunks_number |-> (Len(quads) + ChunkSize - 1) \div ChunkSize]

\* dkg.utils.ual.format_ual / parse_ual
format_ual(chain, contract, token) == <<chain, contract, token>>

parse_ual(ual) ==
    IF Len(ual) = 3
    THEN [err |-> "", contract_address |-> ual[2], token_id |-> ual[3]]
    ELSE [err |-> "LocatorFormatError", contract_address |-> "", token_id |-> None]

RECURSIVE IntOf(_)
\* int(str): value of a decimal digit string
IntOf(digits) ==
    IF digits = <<>> THEN 0
    ELSE 10 * IntOf(SubSeq(digits, 1, Len(digits) - 1)) + digits[Len(digits)]

\* math.floor(a / b) for b > 0
FloorDiv(a, b) == a \div b

\* dkg.utils.metadata.generate_keyword / generate_agreement_id
generate_keyword(contract, firstAssertionId) == <<contract, firstAssertionId>>

generate_agreement_id(contract, token, keyword) == <<"sha256", contract, token, keyword>>

----------------------------------------------------------------------------
(* Input domains *)

\* a content part: statements in the order the caller wrote them; <<>> is absent/empty
PublicParts == {<<>>, <<1>>, <<2, 1>>}

PrivateParts == {<<>>, <<3>>}

Contents == [public : PublicParts, private : PrivateParts]

TokenIds == {7, 8}

UALs == {format_ual(ChainName, StorageAddress, 7), <<"otp", "0xStorage">>}

BidStrings == UNION {[1..n -> 0..MaxDigit] : n \in {1, 2}}

\* statement sequences a Get operation may serve
Served == {<<1>>, <<1, 2>>, <<2, 1>>}

AssertionIds == {Root(q) : q \in Served}

----------------------------------------------------------------------------
(* Values *)

NoCall ==
    [op |-> "none", content |-> [public |-> <<>>, private |-> <<>>],
     epochs_number |-> 0, token_amount |-> None, immutable |-> FALSE,
     ual |-> <<>>, validate |-> FALSE]

NoAssertions ==
    [err |-> "",
     public |-> [id |-> to_hex(None), content |-> <<>>, size |-> 0,
                 triples_number |-> 0, chunks_number |-> 0],
     private |-> [present |-> FALSE, id |-> to_hex(None), content |-> <<>>]]

NoOutcome ==
    [kind |-> "none", err |-> "", context |-> "", detail |-> <<>>,
     UAL |-> <<>>, assertionId |-> to_hex(None), assertion |-> {},
     operationId |-> None, status |-> ""]

\* an exception `err` reaching the caller; `context` is the exception that was being
\* handled when `err` was raised (Python's __context__), "" when there is none
Raise(err, context) == [NoOutcome EXCEPT !.kind = "raise", !.err = err, !.context = context]

\* Python None as the value of `operation_result`
NoneResult == [none |-> TRUE, status |-> "", assertion |-> <<>>]

Entry(fn, args, res, val) == [fn |-> fn, args |-> args, res |-> res, val |-> val]

----------------------------------------------------------------------------
(* _process_content *)

PublicGraphKept == assertions.public.content

\* line 285: every call starts from a fresh, empty public graph
PublicGraphInit == <<>>

ProcessContentNoCheck(content) ==
    LET hasPrivate == content.private # <<>>
        private_assertion == Canonical(content.private)
        private_assertion_id == Root(private_assertion)
        public_graph ==
            content.public \o
            (IF hasPrivate
             THEN <<PRIVATE_ASSERTION_PREDICATE + to_bytes(private_assertion_id)>>
             ELSE <<>>)
        public_assertion == Canonical(public_graph)
        meta == generate_assertion_metadata(public_assertion)
    IN  [err |-> "",
         public |-> [id |-> Root(public_assertion), content |-> public_assertion,
                     size |-> meta.size, triples_number |-> meta.triples_number,
                     chunks_number |-> meta.chunks_number],
         private |-> [present |-> hasPrivate,
                      id |-> IF hasPrivate THEN private_assertion_id ELSE to_hex(None),
                      content |-> IF hasPrivate THEN private_assertion ELSE <<>>]]

ProcessContent(content) ==
    LET hasPrivate == content.private # <<>>
        private_norm == normalize_dataset(content.private)
        private_assertion_id == Root(private_norm.quads)
        public_graph ==
            PublicGraphInit \o content.public \o
            (IF hasPrivate
             THEN <<PRIVATE_ASSERTION_PREDICATE + to_bytes(private_assertion_id)>>
             ELSE <<>>)
        public_norm == normalize_dataset(public_graph)
        meta == generate_assertion_metadata(public_norm.quads)
    IN  IF hasPrivate /\ private_norm.err # "" THEN [NoAssertions EXCEPT !.err = private_norm.err]
        ELSE IF public_norm.err # "" THEN [NoAssertions EXCEPT !.err = public_norm.err]
        ELSE [err |-> "",
              public |-> [id |-> Root(public_norm.quads), content |-> public_norm.quads,
                          size |-> meta.size, triples_number |-> meta.triples_number,
                          chunks_number |-> meta.chunks_number],
              private |-> [present |-> hasPrivate,
                           id |-> IF hasPrivate THEN private_assertion_id ELSE to_hex(None),
                           content |-> IF hasPrivate THEN private_norm.quads ELSE <<>>]]

----------------------------------------------------------------------------
(* Polling: validate_operation_status, get_operation_result, the retry wrapper *)

\* a poll answer: a transport failure, or a NodeResponseDict with a status
PollResponses(kind) ==
    {[err |-> "TransportError", status |-> "", assertion |-> <<>>]}
    \cup [err : {""}, status : {"PENDING", "FAILED"}, assertion : {<<>>}]
    \cup [err : {""}, status : {"COMPLETED"},
          assertion : IF kind = "get" THEN Served ELSE {<<>>}]

\* dkg.utils.node_request.validate_operation_status: "" when it returns
validate_operation_status(status) ==
    CASE status = "COMPLETED" -> ""
      [] status = "FAILED" -> "OperationFailed"
      [] OTHER -> "OperationNotFinished"

ResultOf(resp) == [none |-> FALSE, status |-> resp.status, assertion |-> resp.assertion]

\* body of the nested function of get: it ends without a return statement
inner_get_operation_result(resp) ==
    IF resp.err # "" THEN [raised |-> resp.err, value |-> NoneResult]
    ELSE LET v == validate_operation_status(resp.status)
         IN  IF v # "" THEN [raised |-> v, value |-> NoneResult]
             ELSE [raised |-> "", value |-> NoneResult]

\* mutant: the status of the answer is not validated
get_operation_result_unvalidated(resp) ==
    IF resp.err # "" THEN [raised |-> resp.err, value |-> NoneResult]
    ELSE [raised |-> "", value |-> ResultOf(resp)]

\* body of the method get_operation_result
get_operation_result(resp) ==
    IF resp.err # "" THEN [raised |-> resp.err, value |-> NoneResult]
    ELSE LET v == validate_operation_status(resp.status)
         IN  IF v # "" THEN [raised |-> v, value |-> NoneResult]
             ELSE [raised |-> "", value |-> ResultOf(resp)]

\* one iteration of the retry wrapper around a call that ended as `r`
RetryIteration(r, att, d) ==
    IF r.raised = ""
    THEN [next |-> "return", err |-> "", value |-> r.value,
          attempts |-> att, delay |-> d, slept |-> <<>>]
    ELSE IF r.raised \in RetryCatch
    THEN [next |-> IF att + 1 < MaxRetries THEN "retry" ELSE "raise",
          err |-> IF att + 1 < MaxRetries THEN "" ELSE "OperationNotFinished",
          value |-> NoneResult,
          attempts |-> att + 1, delay |-> d * Backoff, slept |-> <<d>>]
    ELSE [next |-> "raise", err |-> r.raised, value |-> NoneResult,
          attempts |-> att, delay |-> d, slept |-> <<>>]

----------------------------------------------------------------------------
\* the locals of an invocation that has not started
FreshLocals ==
    [pc |-> "idle", call |-> NoCall, assertions |-> NoAssertions, tokenAmount |-> None,
     tokenId |-> None, storageAddress |-> "", opId |-> None, attempts |-> 0,
     delay |-> BaseDelay, sleeps |-> <<>>, log |-> <<>>, outcome |-> NoOutcome]

\* the locals of the running invocation
Locals ==
    [pc |-> pc, call |-> call, assertions |-> assertions, tokenAmount |-> tokenAmount,
     tokenId |-> tokenId, storageAddress |-> storageAddress, opId |-> opId,
     attempts |-> attempts, delay |-> delay, sleeps |-> sleeps, log |-> log,
     outcome |-> outcome]

Init ==
    /\ pc = "idle"
    /\ call = NoCall
    /\ assertions = NoAssertions
    /\ tokenAmount = None
    /\ tokenId = None
    /\ storageAddress = ""
    /\ opId = None
    /\ attempts = 0
    /\ delay = BaseDelay
    /\ sleeps = <<>>
    /\ allowance = InitialAllowance
    /\ latestAssertionId = None
    /\ log = <<>>
    /\ outcome = NoOutcome
    /\ saved = FreshLocals

\* a new top-level call may start when none is running
CanStart == pc = "idle"

\* the wrapper's state on entering a decorated call
EnterRetry ==
    /\ attempts' = 0
    /\ delay' = BaseDelay
    /\ sleeps' = <<>>

\* the poll just made, and what the wrapper did after it
Polled(kind, resp, it, then) ==
    /\ log' = Append(log, Entry("get_operation_result",
                                [operation_id |-> opId, operation |-> kind],
                                IF resp.err = "" THEN "ok" ELSE resp.err,
                                [status |-> resp.status, assertion |-> resp.assertion]))
              \o then
    /\ attempts' = it.attempts
    /\ delay' = it.delay
    /\ sleeps' = sleeps \o it.slept

\* the decorated call did not return: poll again, or raise to the caller
NotReturned(it) ==
    IF it.next = "retry"
    THEN pc' = pc /\ outcome' = outcome
    ELSE pc' = "done" /\ outcome' = Raise(it.err, "")

----------------------------------------------------------------------------
(* ContentAsset.create *)

\* lines 50-53: process the content, resolve chain name and storage address
Create(content, epochs_number, token_amount, immutable) ==
    /\ CanStart
    /\ call' = [NoCall EXCEPT !.op = "create", !.content = content,
                              !.epochs_number = epochs_number,
                              !.token_amount = token_amount, !.immutable = immutable]
    /\ LET a == ProcessContent(content) IN
       IF a.err # ""
       THEN /\ assertions' = NoAssertions
            /\ log' = <<>>
            /\ pc' = "done"
            /\ outcome' = Raise(a.err, "")
       ELSE /\ assertions' = a
            /\ log' = <<Entry("chain_id", <<>>, "ok", ChainName),
                        Entry("get_asset_storage_address", "ContentAssetStorage", "ok",
                              StorageAddress)>>
            /\ pc' = IF token_amount = None THEN "c_bid" ELSE "c_allow"
            /\ outcome' = NoOutcome
    /\ tokenAmount' = token_amount
    /\ tokenId' = None
    /\ storageAddress' = StorageAddress
    /\ opId' = None
    /\ EnterRetry
    /\ UNCHANGED <<allowance, latestAssertionId, saved>>

\* lines 55-65: token_amount omitted, ask the network for a bid suggestion
CreateBidSuggestion ==
    /\ pc = "c_bid"
    /\ \E res \in {"ok", "TransportError"} : \E bid \in BidStrings :
        /\ res = "TransportError" => bid = <<0>>
        /\ log' = Append(log, Entry("bid_suggestion",
                     [chain |-> ChainName, epochs |-> call.epochs_number,
                      size |-> assertions.public.size, contract |-> storageAddress,
                      assertion_id |-> assertions.public.id,
                      hash_function_id |-> HASH_FUNCTION_ID],
                     res, bid))
        /\ IF res = "ok"
           THEN tokenAmount' = IntOf(bid) /\ pc' = "c_allow" /\ outcome' = outcome
           ELSE tokenAmount' = tokenAmount /\ pc' = "done" /\ outcome' = Raise(res, "")
    /\ UNCHANGED <<call, assertions, tokenId, storageAddress, opId, attempts, delay, sleeps,
                   allowance, latestAssertionId, saved>>

\* lines 67-68: resolve the spender and increase its allowance
CreateIncreaseAllowance ==
    /\ pc = "c_allow"
    /\ \E res \in {"ok", "TransportError"} :
        /\ log' = log \o <<Entry("get_contract_address", "ServiceAgreementV1", "ok",
                                 ServiceAgreementV1),
                           Entry("increase_allowance",
                                 [spender |-> ServiceAgreementV1, amount |-> tokenAmount],
                                 res, <<>>)>>
        /\ IF res = "ok"
           THEN allowance' = allowance + tokenAmount /\ pc' = "c_mint" /\ outcome' = outcome
           ELSE allowance' = allowance /\ pc' = "done" /\ outcome' = Raise(res, "")
    /\ UNCHANGED <<call, assertions, tokenAmount, tokenId, storageAddress, opId, attempts, delay, sleeps,
                   latestAssertionId, saved>>

MintArgsCallerAmount ==
    [assertionId |-> to_bytes(assertions.public.id),
     size |-> assertions.public.size,
     triplesNumber |-> assertions.public.triples_number,
     chunksNumber |-> assertions.public.chunks_number,
     tokenAmount |-> call.token_amount,
     epochsNumber |-> call.epochs_number,
     scoreFunctionId |-> SCORE_FUNCTION_ID,
     immutable_ |-> call.immutable]

\* the createAsset arguments of lines 71-80
MintArgs ==
    [assertionId |-> to_bytes(assertions.public.id),
     size |-> assertions.public.size,
     triplesNumber |-> assertions.public.triples_number,
     chunksNumber |-> assertions.public.chunks_number,
     tokenAmount |-> tokenAmount,
     epochsNumber |-> call.epochs_number,
     scoreFunctionId |-> SCORE_FUNCTION_ID,
     immutable_ |-> call.immutable]

\* mutants of the except clause: no compensation; the decrease's failure suppressed
MintRejectedNoRollback(err, decRes, spender, amount) ==
    [calls |-> <<>>, delta |-> 0, outcome |-> Raise(err, "")]

MintRejectedSwallow(err, decRes, spender, amount) ==
    [calls |-> <<Entry("decrease_allowance", [spender |-> spender, amount |-> amount],
                       decRes, <<>>)>>,
     delta |-> IF decRes = "ok" THEN 0 - amount ELSE 0,
     outcome |-> Raise(err, "")]

\* lines 81-83: `except ContractLogicError as err`: decrease the allowance, re-raise.
\* An exception of the decrease leaves the clause with `err` as its __context__.
MintRejected(err, decRes, spender, amount) ==
    [calls |-> <<Entry("decrease_allowance", [spender |-> spender, amount |-> amount],
                       decRes, <<>>)>>,
     delta |-> IF decRes = "ok" THEN 0 - amount ELSE 0,
     outcome |-> IF decRes = "ok" THEN Raise(err, "") ELSE Raise(decRes, err)]

MintCaughtAny(res) == res # "ok"

\* line 81: the except clause catches ContractLogicError only
MintCaught(res) == res = "ContractLogicError"

\* lines 70-90: the mint write, its except clause, the tokenId of the mint event
CreateMint ==
    /\ pc = "c_mint"
    /\ \E res \in {"ok", "ContractLogicError", "TransportError"} :
       \E decRes \in {"ok", "TransportError"} :
       \E ev \in {"ok", "DecodeError"} :
       \E minted \in TokenIds :
        /\ res # "ContractLogicError" => decRes = "ok"
        /\ res # "ok" => ev = "ok"
        /\ (res # "ok" \/ ev # "ok") => minted = 7
        /\ LET e == Entry("create_asset", MintArgs, res, "receipt")
               d == Entry("decode_logs_event", <<"ContentAsset", "AssetMinted">>, ev,
                          [tokenId |-> minted])
               h == MintRejected(res, decRes, ServiceAgreementV1, tokenAmount)
           IN CASE res = "ok" ->
                    /\ log' = log \o <<e, d>>
                    /\ tokenId' = IF ev = "ok" THEN minted ELSE tokenId
                    /\ allowance' = allowance
                    /\ pc' = IF ev = "ok" THEN "c_store" ELSE "done"
                    /\ outcome' = IF ev = "ok" THEN outcome ELSE Raise(ev, "")
                [] MintCaught(res) ->
                    /\ log' = Append(log, e) \o h.calls
                    /\ tokenId' = tokenId
                    /\ allowance' = allowance + h.delta
                    /\ pc' = "done"
                    /\ outcome' = h.outcome
                [] OTHER ->
                    /\ log' = Append(log, e)
                    /\ tokenId' = tokenId
                    /\ allowance' = allowance
                    /\ pc' = "done"
                    /\ outcome' = Raise(res, "")
    /\ UNCHANGED <<call, assertions, tokenAmount, storageAddress, opId, attempts, delay,
                   sleeps, latestAssertionId, saved>>

AssertionsListTriple(storeType) ==
    <<[blockchain |-> ChainName, contract |-> storageAddress, tokenId |-> tokenId,
       assertionId |-> assertions.public.id, assertion |-> assertions.public.content,
       storeType |-> "TRIPLE"]>>
    \o (IF call.content.private # <<>>
        THEN <<[blockchain |-> ChainName, contract |-> storageAddress,
                tokenId |-> tokenId, assertionId |-> assertions.private.id,
                assertion |-> assertions.private.content, storeType |-> "TRIPLE"]>>
        ELSE <<>>)

\* the assertions_list of lines 92-109 / 188-205
AssertionsList(storeType) ==
    <<[blockchain |-> ChainName, contract |-> storageAddress, tokenId |-> tokenId,
       assertionId |-> assertions.public.id, assertion |-> assertions.public.content,
       storeType |-> storeType]>>
    \o (IF call.content.private # <<>>
        THEN <<[blockchain |-> ChainName, contract |-> storageAddress,
                tokenId |-> tokenId, assertionId |-> assertions.private.id,
                assertion |-> assertions.private.content, storeType |-> storeType]>>
        ELSE <<>>)

PublishArgsWithPrivate ==
    [assertion_id |-> assertions.public.id,
     assertion |-> assertions.public.content \o assertions.private.content,
     chain |-> ChainName, contract |-> storageAddress, token_id |-> tokenId,
     hash_function_id |-> HASH_FUNCTION_ID]

\* the arguments of _publish / _update, lines 114-121 / 210-217
PublishArgs ==
    [assertion_id |-> assertions.public.id, assertion |-> assertions.public.content,
     chain |-> ChainName, contract |-> storageAddress, token_id |-> tokenId,
     hash_function_id |-> HASH_FUNCTION_ID]

SubmitIgnoringFailure(fn, args, next) ==
    \E res \in {"ok", "TransportError"} :
        /\ log' = Append(log, Entry(fn, args, res, IF res = "ok" THEN Len(log) + 1 ELSE None))
        /\ opId' = IF res = "ok" THEN Len(log) + 1 ELSE opId
        /\ pc' = next
        /\ outcome' = outcome
        /\ EnterRetry

\* a submission to the node network: logs it; on success the wrapper of the
\* following get_operation_result call starts afresh
Submit(fn, args, next) ==
    \E res \in {"ok", "TransportError"} :
        /\ log' = Append(log, Entry(fn, args, res, IF res = "ok" THEN Len(log) + 1 ELSE None))
        /\ IF res = "ok"
           THEN opId' = Len(log) + 1 /\ pc' = next /\ outcome' = outcome /\ EnterRetry
           ELSE /\ opId' = opId /\ pc' = "done" /\ outcome' = Raise(res, "")
                /\ UNCHANGED <<attempts, delay, sleeps>>

\* line 111
CreateLocalStore ==
    /\ pc = "c_store"
    /\ Submit("local_store", AssertionsList("TRIPLE"), "c_await_store")
    /\ UNCHANGED <<call, assertions, tokenAmount, tokenId, storageAddress, allowance,
                   latestAssertionId, saved>>

\* line 112: one poll of the LocalStore operation
CreateAwaitLocalStore ==
    /\ pc = "c_await_store"
    /\ \E resp \in PollResponses("local-store") :
        LET it == RetryIteration(get_operation_result(resp), attempts, delay) IN
        /\ Polled("local-store", resp, it, <<>>)
        /\ IF it.next = "return"
           THEN pc' = "c_publish" /\ outcome' = outcome
           ELSE NotReturned(it)
    /\ UNCHANGED <<call, assertions, tokenAmount, tokenId, storageAddress, opId, allowance,
                   latestAssertionId, saved>>

\* lines 114-121
CreatePublish ==
    /\ pc = "c_publish"
    /\ Submit("publish", PublishArgs, "c_await_publish")
    /\ UNCHANGED <<call, assertions, tokenAmount, tokenId, storageAddress, allowance,
                   latestAssertionId, saved>>

AssetResultPrivateId(operation_result) ==
    [NoOutcome EXCEPT !.kind = "return",
                      !.UAL = format_ual(ChainName, storageAddress, tokenId),
                      !.assertionId = assertions.private.id,
                      !.operationId = opId,
                      !.status = operation_result.status]

\* the dict returned by create and update, lines 124-131 / 220-227
AssetResult(operation_result) ==
    [NoOutcome EXCEPT !.kind = "return",
                      !.UAL = format_ual(ChainName, storageAddress, tokenId),
                      !.assertionId = assertions.public.id,
                      !.operationId = opId,
                      !.status = operation_result.status]

\* lines 122-131: one poll of the Publish operation; on completion create returns
CreateAwaitPublish ==
    /\ pc = "c_await_publish"
    /\ \E resp \in PollResponses("publish") :
        LET it == RetryIteration(get_operation_result(resp), attempts, delay) IN
        /\ Polled("publish", resp, it, <<>>)
        /\ IF it.next = "return"
           THEN pc' = "done" /\ outcome' = AssetResult(it.value)
           ELSE NotReturned(it)
    /\ UNCHANGED <<call, assertions, tokenAmount, tokenId, storageAddress, opId, allowance,
                   latestAssertionId, saved>>

CreateCall ==
    \E content \in Contents, epochs_number \in 1..2,
       token_amount \in {None} \cup (0..MaxToken), immutable \in BOOLEAN :
        Create(content, epochs_number, token_amount, immutable)

----------------------------------------------------------------------------
(* ContentAsset.update *)

\* lines 147-152: parse the locator, process the content, resolve the chain name
Update(ual, content, token_amount) ==
    /\ CanStart
    /\ call' = [NoCall EXCEPT !.op = "update", !.ual = ual, !.content = content,
                              !.token_amount = token_amount]
    /\ LET parsed == parse_ual(ual)
           a == ProcessContent(content)
       IN  IF parsed.err # "" \/ a.err # ""
           THEN /\ assertions' = NoAssertions
                /\ tokenId' = None
                /\ storageAddress' = ""
                /\ log' = <<>>
                /\ pc' = "done"
                /\ outcome' = Raise(IF parsed.err # "" THEN parsed.err ELSE a.err, "")
           ELSE /\ assertions' = a
                /\ tokenId' = parsed.token_id
                /\ storageAddress' = parsed.contract_address
                /\ log' = <<Entry("chain_id", <<>>, "ok", ChainName)>>
                /\ pc' = IF token_amount = None THEN "u_agreement" ELSE "u_state"
                /\ outcome' = NoOutcome
    /\ tokenAmount' = token_amount
    /\ opId' = None
    /\ EnterRetry
    /\ UNCHANGED <<allowance, latestAssertionId, saved>>

Agreements ==
    [startTime : {0, 1}, epochLength : {1, 2}, epochsNumber : {2},
     tokensInfo : {<<t>> : t \in 0..MaxEscrow}]

\* the first assertion id the ledger records for an asset
FirstAssertionId == to_bytes(Root(<<1>>))

\* lines 322-325
get_agreement_id(contract_address, token_id) ==
    generate_agreement_id(contract_address, token_id,
                          generate_keyword(contract_address, FirstAssertionId))

\* lines 160-163
EpochsLeft(timestamp_now, agreement_data) ==
    agreement_data.epochsNumber
        - FloorDiv(timestamp_now - agreement_data.startTime, agreement_data.epochLength)

UpdateTokenAmountNoFloor(bid, agreement_data) ==
    IntOf(bid) - agreement_data.tokensInfo[1]

\* lines 165-177: the bid, less what is already escrowed, floored at zero
UpdateTokenAmount(bid, agreement_data) ==
    LET token_amount == IntOf(bid) - agreement_data.tokensInfo[1]
    IN  IF token_amount > 0 THEN token_amount ELSE 0

\* lines 154-177: token_amount omitted
UpdateAgreement ==
    /\ pc = "u_agreement"
    /\ \E agreement_data \in Agreements, timestamp_now \in 0..MaxTime :
       \E res \in {"ok", "TransportError"} : \E bid \in BidStrings :
        /\ agreement_data.startTime <= timestamp_now
        /\ res = "TransportError" => bid = <<0>>
        /\ log' = log \o
            <<Entry("get_assertion_id_by_index", <<tokenId, 0>>, "ok", FirstAssertionId),
              Entry("get_service_agreement_data", get_agreement_id(storageAddress, tokenId),
                    "ok", agreement_data),
              Entry("get_block", "latest", "ok", [timestamp |-> timestamp_now]),
              Entry("bid_suggestion",
                    [chain |-> ChainName,
                     epochs |-> EpochsLeft(timestamp_now, agreement_data),
                     size |-> assertions.public.size, contract |-> storageAddress,
                     assertion_id |-> assertions.public.id,
                     hash_function_id |-> HASH_FUNCTION_ID],
                    res, bid)>>
        /\ IF res = "ok"
           THEN /\ tokenAmount' = UpdateTokenAmount(bid, agreement_data)
                /\ pc' = "u_state"
                /\ outcome' = outcome
           ELSE /\ tokenAmount' = tokenAmount
                /\ pc' = "done"
                /\ outcome' = Raise(res, "")
    /\ UNCHANGED <<call, assertions, tokenId, storageAddress, opId, attempts, delay, sleeps,
                   allowance, latestAssertionId, saved>>

UpdateAssetStateUnchecked ==
    /\ pc = "u_state"
    /\ \E res \in {"ok", "ContractLogicError"} :
        /\ log' = Append(log, Entry("update_asset_state",
                     [token_id |-> tokenId,
                      assertion_id |-> assertions.public.id,
                      size |-> assertions.public.size,
                      triples_number |-> assertions.public.triples_number,
                      chunks_number |-> assertions.public.chunks_number,
                      update_token_amount |-> tokenAmount],
                     res, <<>>))
        /\ pc' = "u_store"
        /\ outcome' = outcome
    /\ UNCHANGED <<call, assertions, tokenAmount, tokenId, storageAddress, opId, attempts,
                   delay, sleeps, allowance, latestAssertionId, saved>>

\* lines 179-186: the updateAssetState ledger write
UpdateAssetState ==
    /\ pc = "u_state"
    /\ \E res \in {"ok", "ContractLogicError"} :
        /\ log' = Append(log, Entry("update_asset_state",
                     [token_id |-> tokenId,
                      assertion_id |-> assertions.public.id,
                      size |-> assertions.public.size,
                      triples_number |-> assertions.public.triples_number,
                      chunks_number |-> assertions.public.chunks_number,
                      update_token_amount |-> tokenAmount],
                     res, <<>>))
        /\ IF res = "ok"
           THEN pc' = "u_store" /\ outcome' = outcome
           ELSE pc' = "done" /\ outcome' = Raise(res, "")
    /\ UNCHANGED <<call, assertions, tokenAmount, tokenId, storageAddress, opId, attempts,
                   delay, sleeps, allowance, latestAssertionId, saved>>

\* line 207
UpdateLocalStore ==
    /\ pc = "u_store"
    /\ Submit("local_store", AssertionsList("PENDING"), "u_await_store")
    /\ UNCHANGED <<call, assertions, tokenAmount, tokenId, storageAddress, allowance,
                   latestAssertionId, saved>>

\* line 208
UpdateAwaitLocalStore ==
    /\ pc = "u_await_store"
    /\ \E resp \in PollResponses("local-store") :
        LET it == RetryIteration(get_operation_result(resp), attempts, delay) IN
        /\ Polled("local-store", resp, it, <<>>)
        /\ IF it.next = "return"
           THEN pc' = "u_update" /\ outcome' = outcome
           ELSE NotReturned(it)
    /\ UNCHANGED <<call, assertions, tokenAmount, tokenId, storageAddress, opId, allowance,
                   latestAssertionId, saved>>

\* lines 210-217
UpdateSubmit ==
    /\ pc = "u_update"
    /\ Submit("update", PublishArgs, "u_await_update")
    /\ UNCHANGED <<call, assertions, tokenAmount, tokenId, storageAddress, allowance,
                   latestAssertionId, saved>>

\* lines 218-227
UpdateAwaitUpdate ==
    /\ pc = "u_await_update"
    /\ \E resp \in PollResponses("update") :
        LET it == RetryIteration(get_operation_result(resp), attempts, delay) IN
        /\ Polled("update", resp, it, <<>>)
        /\ IF it.next = "return"
           THEN pc' = "done" /\ outcome' = AssetResult(it.value)
           ELSE NotReturned(it)
    /\ UNCHANGED <<call, assertions, tokenAmount, tokenId, storageAddress, opId, allowance,
                   latestAssertionId, saved>>

UpdateCall ==
    \E ual \in UALs, content \in Contents, token_amount \in {None} \cup (0..MaxToken) :
        Update(ual, content, token_amount)

----------------------------------------------------------------------------
(* ContentAsset.get *)

\* jsonld.from_rdf: the statements as an unordered graph
from_rdf(assertion) == {assertion[i] : i \in DOMAIN assertion}

\* line 236: submit the Get operation
Get(ual, validate) ==
    /\ CanStart
    /\ call' = [NoCall EXCEPT !.op = "get", !.ual = ual, !.validate = validate]
    /\ latestAssertionId' \in {to_bytes(a) : a \in AssertionIds}
    /\ Submit("get", [ual |-> ual, hashFunctionId |-> 1], "g_await")
    /\ UNCHANGED <<assertions, tokenAmount, tokenId, storageAddress, allowance, saved>>

\* lines 248-273: what get does with the value the decorated call returned
GetRest(operation_result, ual, validate, operation_id, ledgerLatest) ==
    IF operation_result.none
    THEN \* None['data']
         [calls |-> <<>>, outcome |-> Raise("TypeError", "")]
    ELSE LET assertion == operation_result.assertion
             parsed == parse_ual(ual)
             latest_assertion_id == to_hex(ledgerLatest)
             root == Root(assertion)
             calls == <<Entry("get_latest_assertion_id", parsed.token_id, "ok",
                              ledgerLatest)>>
         IN  IF parsed.err # ""
             THEN [calls |-> <<>>, outcome |-> Raise(parsed.err, "")]
             ELSE IF validate /\ root # latest_assertion_id
             THEN [calls |-> calls,
                   outcome |-> [Raise("InvalidAsset", "") EXCEPT
                                   !.detail = <<latest_assertion_id, root>>]]
             ELSE [calls |-> calls,
                   outcome |-> [NoOutcome EXCEPT
                                   !.kind = "return",
                                   !.assertionId = latest_assertion_id,
                                   !.assertion = from_rdf(assertion),
                                   !.operationId = operation_id,
                                   !.status = operation_result.status]]

\* lines 238-273: one poll of the Get operation through the nested decorated
\* function; once it returns, the rest of get runs
GetAwait ==
    /\ pc = "g_await"
    /\ \E resp \in PollResponses("get") :
        LET it == RetryIteration(inner_get_operation_result(resp), attempts, delay)
            rest == GetRest(it.value, call.ual, call.validate, opId, latestAssertionId)
        IN
        /\ Polled("get", resp, it, IF it.next = "return" THEN rest.calls ELSE <<>>)
        /\ IF it.next = "return"
           THEN pc' = "done" /\ outcome' = rest.outcome
           ELSE NotReturned(it)
    /\ UNCHANGED <<call, assertions, tokenAmount, tokenId, storageAddress, opId, allowance,
                   latestAssertionId, saved>>

GetCall == \E ual \in UALs, validate \in BOOLEAN : Get(ual, validate)

----------------------------------------------------------------------------
(* _process_content called repeatedly on one ContentAsset *)

\* lines 280-318: one call of _process_content; the call and what it returned
\* (or raised) are recorded, and `assertions` is the value the last call built
Process(content) ==
    /\ call.op \in {"none", "process"}
    /\ Len(log) < MaxHistory
    /\ LET a == ProcessContent(content) IN
        /\ assertions' = a
        /\ log' = Append(log, Entry("_process_content", content,
                                    IF a.err = "" THEN "ok" ELSE a.err, a))
    /\ call' = [NoCall EXCEPT !.op = "process", !.content = content]
    /\ UNCHANGED <<pc, tokenAmount, tokenId, storageAddress, opId, attempts, delay, sleeps,
                   allowance, latestAssertionId, outcome, saved>>

NextProcess == \E content \in Contents : Process(content)

SpecProcess == Init /\ [][NextProcess]_vars

----------------------------------------------------------------------------
(* Two create calls running concurrently against the same account *)

\* the other invocation resumes sharing the running one's token amount
ResumeSharingAmount(other) ==
    /\ pc' = other.pc
    /\ call' = other.call
    /\ assertions' = other.assertions
    /\ tokenAmount' = IF other.pc = "idle" THEN other.tokenAmount ELSE tokenAmount
    /\ tokenId' = other.tokenId
    /\ storageAddress' = other.storageAddress
    /\ opId' = other.opId
    /\ attempts' = other.attempts
    /\ delay' = other.delay
    /\ sleeps' = other.sleeps
    /\ log' = other.log
    /\ outcome' = other.outcome

\* the other invocation resumes with its own locals: create keeps its state in
\* locals only (lines 50-124), nothing is stored on self
Resume(other) ==
    /\ pc' = other.pc
    /\ call' = other.call
    /\ assertions' = other.assertions
    /\ tokenAmount' = other.tokenAmount
    /\ tokenId' = other.tokenId
    /\ storageAddress' = other.storageAddress
    /\ opId' = other.opId
    /\ attempts' = other.attempts
    /\ delay' = other.delay
    /\ sleeps' = other.sleeps
    /\ log' = other.log
    /\ outcome' = other.outcome

\* the scheduler suspends the running invocation between two collaborator
\* calls and runs the other one; the ledger's allowance is shared
Switch ==
    /\ pc # "idle" \/ saved.pc # "idle"
    /\ saved' = Locals
    /\ Resume(saved)
    /\ UNCHANGED <<allowance, latestAssertionId>>

ConcContents == {[public |-> <<>>, private |-> <<>>], [public |-> <<1>>, private |-> <<>>]}

ConcAmounts == {1, 2}

CreateCallConc ==
    \E content \in ConcContents, token_amount \in ConcAmounts :
        Create(content, 2, token_amount, FALSE)

NextConc ==
    \/ CreateCallConc
    \/ CreateIncreaseAllowance
    \/ CreateMint
    \/ CreateLocalStore
    \/ CreateAwaitLocalStore /\ Len(sleeps') <= MaxConcPending
    \/ CreatePublish
    \/ CreateAwaitPublish /\ Len(sleeps') <= MaxConcPending
    \/ Switch

SpecConc == Init /\ [][NextConc]_vars

----------------------------------------------------------------------------
Next ==
    \/ CreateCall
    \/ CreateBidSuggestion
    \/ CreateIncreaseAllowance
    \/ CreateMint
    \/ CreateLocalStore
    \/ CreateAwaitLocalStore
    \/ CreatePublish
    \/ CreateAwaitPublish
    \/ UpdateCall
    \/ UpdateAgreement
    \/ UpdateAssetState
    \/ UpdateLocalStore
    \/ UpdateAwaitLocalStore
    \/ UpdateSubmit
    \/ UpdateAwaitUpdate
    \/ GetCall
    \/ GetAwait

Spec == Init /\ [][Next]_vars

----------------------------------------------------------------------------
(* Reading the log *)

IdxOf(fn) == {i \in DOMAIN log : log[i].fn = fn}

PollIdx == IdxOf("get_operation_result")

PollsOf(id) == {i \in PollIdx : log[i].args.operation_id = id}

PolledIds == {log[i].args.operation_id : i \in PollIdx}

PendingAt(i) == log[i].res = "ok" /\ log[i].val.status = "PENDING"

CompletedAt(i) == log[i].res = "ok" /\ log[i].val.status = "COMPLETED"

FailedAt(i) == log[i].res = "ok" /\ log[i].val.status = "FAILED"

MintRejectedAt(i) == log[i].fn = "create_asset" /\ log[i].res = "ContractLogicError"

\* the allowance increase of this call is followed, right after the rejected mint
\* at i, by a decrease for the same spender and the same amount
CompensatedAt(i) ==
    /\ i + 1 \in DOMAIN log
    /\ log[i + 1].fn = "decrease_allowance"
    /\ log[i + 1].args.amount = log[i].args.tokenAmount
    /\ \E j \in IdxOf("increase_allowance") :
        /\ j < i
        /\ log[j].res = "ok"
        /\ log[i + 1].args = log[j].args

AwaitStates ==
    {"c_await_store", "c_await_publish", "u_await_store", "u_await_update", "g_await"}

----------------------------------------------------------------------------
(* Claims *)

\* C1 as stated: whenever the ledger rejects the mint write after the allowance
\* increase, the allowance is decreased by the same amount for the same spender
\* before create raises, and the error raised is the original mint failure.
C1_Original ==
    \A i \in DOMAIN log : MintRejectedAt(i) =>
        /\ pc = "done"
        /\ CompensatedAt(i)
        /\ allowance = InitialAllowance
        /\ outcome = Raise("ContractLogicError", "")

\* C1 amended: after a rejected mint create issues, as its last ledger call, a
\* decrease for the same spender and amount as its increase and then raises; when
\* that decrease succeeds the allowance is back at its value before the call and
\* the error raised is the original mint failure.
C1_Rollback ==
    \A i \in DOMAIN log : MintRejectedAt(i) =>
        /\ pc = "done"
        /\ CompensatedAt(i)
        /\ Len(log) = i + 1
        /\ outcome.kind = "raise"
        /\ log[i + 1].res = "ok" =>
            /\ allowance = InitialAllowance
            /\ outcome = Raise("ContractLogicError", "")

C1_Witness ==
    /\ pc = "done"
    /\ \E i \in DOMAIN log :
        /\ MintRejectedAt(i)
        /\ log[i].args.tokenAmount > 0
        /\ CompensatedAt(i)
        /\ log[i + 1].res = "ok"
    /\ outcome = Raise("ContractLogicError", "")

\* C2: when the mint is rejected and the compensating decrease fails too, the
\* exception create raises is the decrease's failure and carries the mint
\* failure as its context: both errors reach the caller.
C2_BothErrors ==
    \A i \in DOMAIN log :
        (MintRejectedAt(i) /\ i + 1 \in DOMAIN log /\ log[i + 1].res # "ok") =>
            /\ pc = "done"
            /\ outcome.kind = "raise"
            /\ outcome.err = log[i + 1].res
            /\ outcome.context = log[i].res
            /\ outcome.err # outcome.context

C2_Witness ==
    /\ pc = "done"
    /\ \E i \in DOMAIN log :
        /\ MintRejectedAt(i)
        /\ i + 1 \in DOMAIN log
        /\ log[i + 1].fn = "decrease_allowance"
        /\ log[i + 1].res = "TransportError"
    /\ outcome.err = "TransportError"
    /\ outcome.context = "ContractLogicError"

\* C3: an operation that answers Pending on every poll is polled at most 5 times,
\* the wrapper sleeping 1, 2, 4, 8, 16 after the polls; while fewer than 5 polls
\* were made the call is still awaiting it, and the 5th Pending poll ends the
\* call with OperationNotFinished.
C3_RetryBound ==
    \A id \in PolledIds :
        LET P == PollsOf(id)
            n == Cardinality(P)
        IN  /\ n <= 5
            /\ (\A i \in P : PendingAt(i)) =>
                /\ id = opId
                /\ sleeps = SubSeq(<<1, 2, 4, 8, 16>>, 1, n)
                /\ n < 5 => (pc \in AwaitStates /\ outcome.kind = "none")
                /\ n = 5 => /\ pc = "done"
                            /\ outcome = Raise("OperationNotFinished", "")
                            /\ Len(log) \in P

C3_Witness ==
    /\ pc = "done"
    /\ call.op = "create"
    /\ outcome = Raise("OperationNotFinished", "")
    /\ Cardinality(PollsOf(opId)) = 5
    /\ \A i \in PollsOf(opId) : PendingAt(i)
    /\ sleeps = <<1, 2, 4, 8, 16>>

RespAt(i) ==
    [err |-> IF log[i].res = "ok" THEN "" ELSE log[i].res,
     status |-> log[i].val.status,
     assertion |-> log[i].val.assertion]

\* a get call that has finished and whose Get operation was observed Completed
\* at the poll logged at i, for a well-formed locator
GetCompletedAt(i) ==
    /\ pc = "done"
    /\ call.op = "get"
    /\ parse_ual(call.ual).err = ""
    /\ i \in PollIdx
    /\ CompletedAt(i)

\* C5: in get with validate=true, when the Merkle root of the served statements
\* differs from the ledger's latest assertion id, get raises InvalidAsset carrying
\* both values and returns nothing.
C5_IntegrityError ==
    \A i \in DOMAIN log :
        (/\ GetCompletedAt(i)
         /\ call.validate
         /\ Root(log[i].val.assertion) # to_hex(latestAssertionId)) =>
            /\ outcome.kind = "raise"
            /\ outcome.err = "InvalidAsset"
            /\ outcome.detail = <<to_hex(latestAssertionId), Root(log[i].val.assertion)>>

\* C6: when the Get operation completed and (for validate=true) the recomputed
\* root equals the ledger's latest assertion id, get returns the ledger's id, the
\* retrieved assertion and the status the poll reported.
C6_GetReturns ==
    \A i \in DOMAIN log :
        (/\ GetCompletedAt(i)
         /\ call.validate => Root(log[i].val.assertion) = to_hex(latestAssertionId)) =>
            /\ outcome.kind = "return"
            /\ outcome.assertionId = to_hex(latestAssertionId)
            /\ outcome.assertion = from_rdf(log[i].val.assertion)
            /\ outcome.status = "COMPLETED"

\* C7: awaiting the Get operation inside get ends as awaiting it through
\* get_operation_result would: for the polls get made, the call ended with the
\* error that method raises, or went on with the result that method returns.
C7_SameCoordinator ==
    (pc = "done" /\ call.op = "get" /\ PollIdx # {}) =>
        LET i == CHOOSE k \in PollIdx : \A j \in PollIdx : j <= k
            it == RetryIteration(get_operation_result(RespAt(i)),
                                 Cardinality(PollIdx) - 1, BaseDelay)
        IN  outcome = IF it.next = "return"
                      THEN GetRest(it.value, call.ual, call.validate, opId,
                                   latestAssertionId).outcome
                      ELSE Raise(it.err, "")

\* C8: with tokenAmount omitted, update passes to updateAssetState
\* max(0, bid - tokensInfo[0]), the bid being the one suggested for
\* epochsNumber - floor((now - startTime) / epochLength) epochs; never negative.
C8_UpdateFloor ==
    \A i \in IdxOf("update_asset_state") :
        /\ log[i].args.update_token_amount >= 0
        /\ call.token_amount = None =>
            \E a \in IdxOf("get_service_agreement_data"), t \in IdxOf("get_block"),
               b \in IdxOf("bid_suggestion") :
                /\ a < t /\ t < b /\ b < i
                /\ log[b].res = "ok"
                /\ log[b].args.epochs =
                     log[a].val.epochsNumber
                       - ((log[t].val.timestamp - log[a].val.startTime)
                            \div log[a].val.epochLength)
                /\ log[i].args.update_token_amount =
                     Max0(IntOf(log[b].val) - log[a].val.tokensInfo[1])

C8_Witness ==
    /\ call.op = "update"
    /\ call.token_amount = None
    /\ \E i \in IdxOf("update_asset_state"), a \in IdxOf("get_service_agreement_data"),
          b \in IdxOf("bid_suggestion"), t \in IdxOf("get_block") :
        /\ IntOf(log[b].val) < log[a].val.tokensInfo[1]
        /\ log[i].args.update_token_amount = 0
        /\ log[t].val.timestamp - log[a].val.startTime = 1
        /\ log[a].val.epochLength = 2

\* C9: content with neither a non-empty public nor a non-empty private part makes
\* create and update fail at once: no ledger call, no network operation, the
\* allowance untouched, and the error is the content error of content processing
\* (update first rejects a malformed locator).
C9_EmptyContent ==
    (/\ call.op \in {"create", "update"}
     /\ call.content.public = <<>>
     /\ call.content.private = <<>>) =>
        /\ pc = "done"
        /\ log = <<>>
        /\ allowance = InitialAllowance
        /\ outcome.kind = "raise"
        /\ (call.op = "create" \/ parse_ual(call.ual).err = "") =>
              outcome = Raise("ContentError", "")

C9_Witness ==
    /\ call.op = "update"
    /\ call.content = [public |-> <<>>, private |-> <<>>]
    /\ pc = "done"
    /\ outcome = Raise("ContentError", "")

\* C10: a poll that fails otherwise than with Pending (a transport error, a
\* reported Failed status) is the last thing create, update or get does, and the
\* call raises exactly that failure; every poll that was followed by another poll
\* of the same operation reported Pending.
C10_OnlyPendingRetried ==
    \A i \in PollIdx :
        /\ (log[i].res # "ok" \/ FailedAt(i)) =>
            /\ Len(log) = i
            /\ pc = "done"
            /\ outcome = Raise(IF log[i].res # "ok" THEN log[i].res ELSE "OperationFailed", "")
        /\ (\E j \in PollsOf(log[i].args.operation_id) : j > i) => PendingAt(i)

C10_Witness ==
    /\ pc = "done"
    /\ call.op = "get"
    /\ Cardinality(PollIdx) = 2
    /\ log[Len(log)].fn = "get_operation_result"
    /\ log[Len(log)].res = "TransportError"
    /\ outcome = Raise("TransportError", "")

\* C11: when the mint succeeds and LocalStore and then Publish each report
\* Completed on their first poll, create returns after exactly one poll of each:
\* the Locator of the chain name, the resolved storage address and the tokenId of
\* the mint event, the public assertion id written in the mint, the Publish
\* operation's id, and the status Completed of the Publish poll.
C11_EndToEnd ==
    (/\ call.op = "create"
     /\ Cardinality(PollIdx) = 2
     /\ \A i \in PollIdx : CompletedAt(i)) =>
        \E c \in IdxOf("chain_id"), a \in IdxOf("get_asset_storage_address"),
           m \in IdxOf("create_asset"), d \in IdxOf("decode_logs_event"),
           ls \in IdxOf("local_store"), pb \in IdxOf("publish") :
            /\ m < d /\ d < ls /\ pb = ls + 2 /\ Len(log) = pb + 1
            /\ PollIdx = {ls + 1, pb + 1}
            /\ log[ls + 1].args = [operation_id |-> log[ls].val, operation |-> "local-store"]
            /\ log[pb + 1].args = [operation_id |-> log[pb].val, operation |-> "publish"]
            /\ log[m].res = "ok"
            /\ pc = "done"
            /\ outcome.kind = "return"
            /\ outcome.UAL = <<log[c].val, log[a].val, log[d].val.tokenId>>
            /\ outcome.assertionId = to_hex(log[m].args.assertionId)
            /\ outcome.assertionId = Root(log[ls].args[1].assertion)
            /\ outcome.operationId = log[pb].val
            /\ outcome.status = log[pb + 1].val.status
            /\ outcome.status = "COMPLETED"

C11_Witness ==
    /\ call.op = "create"
    /\ call.content = [public |-> <<1>>, private |-> <<>>]
    /\ call.epochs_number = 2
    /\ call.token_amount = None
    /\ pc = "done"
    /\ Cardinality(PollIdx) = 2
    /\ \A i \in PollIdx : CompletedAt(i)
    /\ outcome.kind = "return"
    /\ outcome.UAL = <<"otp", "0xStorage", 7>>
    /\ outcome.status = "COMPLETED"

\* the statements of a sequence of statements
Statements(quads) == {quads[k] : k \in 1..Len(quads)}

\* the link statement the public assertion carries to the private assertion
PrivateLink(private) ==
    PRIVATE_ASSERTION_PREDICATE + to_bytes(Root(normalize_dataset(private).quads))

\* C12: the payload of every Publish and Update submission is the public
\* assertion id and the public assertion content only (the caller's public
\* statements and the link to the private assertion id): no private statement is
\* in it, and the private statements are sent in the LocalStore payload's
\* second entry and nowhere else.
C12_PrivateNeverPublished ==
    /\ \A i \in IdxOf("publish") \cup IdxOf("update") :
        /\ DOMAIN log[i].args = {"assertion_id", "assertion", "chain", "contract",
                                 "token_id", "hash_function_id"}
        /\ log[i].args.assertion_id = Root(log[i].args.assertion)
        /\ Statements(log[i].args.assertion) \subseteq
               Statements(call.content.public) \cup
               (IF call.content.private # <<>>
                THEN {PrivateLink(call.content.private)} ELSE {})
        /\ Statements(log[i].args.assertion) \cap Statements(call.content.private) = {}
        /\ \E ls \in IdxOf("local_store") :
            /\ ls < i
            /\ log[ls].args[1].assertion = log[i].args.assertion
            /\ log[ls].args[1].assertionId = log[i].args.assertion_id
            /\ call.content.private # <<>> =>
                   Statements(log[ls].args[2].assertion) = Statements(call.content.private)
    /\ \A i \in IdxOf("local_store") :
        Statements(log[i].args[1].assertion) \cap Statements(call.content.private) = {}

C12_Witness ==
    /\ call.op = "create"
    /\ call.content = [public |-> <<2, 1>>, private |-> <<3>>]
    /\ \E i \in IdxOf("publish") :
        /\ log[i].res = "ok"
        /\ PrivateLink(<<3>>) \in Statements(log[i].args.assertion)
        /\ \E ls \in IdxOf("local_store") : log[ls].args[2].assertion = <<3>>

\* the entry at i is a poll of the operation submitted successfully at s, and
\* only polls of that operation lie between the two
AwaitsSubmission(i, s, fn, kind) ==
    /\ s < i
    /\ log[s].fn = fn
    /\ log[s].res = "ok"
    /\ log[i].args = [operation_id |-> log[s].val, operation |-> kind]
    /\ \A j \in (s + 1)..(i - 1) : log[j].fn = "get_operation_result" /\ PendingAt(j)

\* the collaborator calls that make up the stages of create and update
StageFns ==
    {"increase_allowance", "create_asset", "decode_logs_event", "update_asset_state",
     "local_store", "publish", "update", "get_operation_result"}

\* the stage at i did not succeed: the call was rejected, or the poll did not
\* report Completed
StageNotPassed(i) ==
    \/ log[i].res # "ok"
    \/ log[i].fn = "get_operation_result" /\ ~CompletedAt(i)

\* C14: create runs its stages in the order allowance increase, mint, LocalStore
\* submission and await, Publish submission and await, each at most once and each
\* only directly after the previous one succeeded; Publish is submitted only
\* directly after a poll observed the LocalStore operation Completed.
C14_CreateOrder ==
    call.op = "create" =>
        /\ \A fn \in StageFns \ {"get_operation_result"} : Cardinality(IdxOf(fn)) <= 1
        /\ IdxOf("update_asset_state") = {} /\ IdxOf("update") = {}
        /\ \A i \in DOMAIN log :
            /\ log[i].fn = "create_asset" =>
                /\ i - 1 \in IdxOf("increase_allowance")
                /\ log[i - 1].res = "ok"
            /\ log[i].fn = "decode_logs_event" =>
                /\ i - 1 \in IdxOf("create_asset")
                /\ log[i - 1].res = "ok"
            /\ log[i].fn = "local_store" =>
                /\ i - 1 \in IdxOf("decode_logs_event")
                /\ log[i - 1].res = "ok"
            /\ log[i].fn = "publish" =>
                /\ i - 1 \in PollIdx
                /\ CompletedAt(i - 1)
                /\ \E s \in IdxOf("local_store") :
                       AwaitsSubmission(i - 1, s, "local_store", "local-store")
            /\ log[i].fn = "get_operation_result" =>
                \E s \in IdxOf("local_store") \cup IdxOf("publish") :
                    \/ AwaitsSubmission(i, s, "local_store", "local-store")
                    \/ AwaitsSubmission(i, s, "publish", "publish")
            /\ (log[i].fn \in StageFns /\ StageNotPassed(i) /\ ~PendingAt(i)) =>
                /\ pc = "done"
                /\ outcome.kind = "raise"
                /\ \A j \in DOMAIN log : j > i => log[j].fn = "decrease_allowance"

C14_Witness ==
    /\ call.op = "create"
    /\ pc = "done"
    /\ outcome.kind = "return"
    /\ \E a \in IdxOf("increase_allowance"), m \in IdxOf("create_asset"),
          ls \in IdxOf("local_store"), pb \in IdxOf("publish") :
        /\ a < m /\ m < ls /\ ls < pb
        /\ PendingAt(ls + 1)
        /\ CompletedAt(pb - 1)
        /\ pb - 1 > ls + 1
        /\ CompletedAt(Len(log))

\* C15: update runs updateAssetState, then the LocalStore submission and await,
\* then the Update submission and await, each at most once and each only directly
\* after the previous one succeeded; it never mints and never touches the
\* allowance: no createAsset, increase or decrease call is made and the allowance
\* keeps its value.
C15_UpdateOrder ==
    call.op = "update" =>
        /\ \A fn \in StageFns \ {"get_operation_result"} : Cardinality(IdxOf(fn)) <= 1
        /\ \A fn \in {"create_asset", "decode_logs_event", "increase_allowance",
                      "decrease_allowance", "publish"} : IdxOf(fn) = {}
        /\ allowance = InitialAllowance
        /\ \A i \in DOMAIN log :
            /\ log[i].fn = "local_store" =>
                /\ i - 1 \in IdxOf("update_asset_state")
                /\ log[i - 1].res = "ok"
            /\ log[i].fn = "update" =>
                /\ i - 1 \in PollIdx
                /\ CompletedAt(i - 1)
                /\ \E s \in IdxOf("local_store") :
                       AwaitsSubmission(i - 1, s, "local_store", "local-store")
            /\ log[i].fn = "get_operation_result" =>
                \E s \in IdxOf("local_store") \cup IdxOf("update") :
                    \/ AwaitsSubmission(i, s, "local_store", "local-store")
                    \/ AwaitsSubmission(i, s, "update", "update")
            /\ (log[i].fn \in StageFns /\ StageNotPassed(i) /\ ~PendingAt(i)) =>
                /\ pc = "done"
                /\ outcome.kind = "raise"
                /\ Len(log) = i

C15_Witness ==
    /\ call.op = "update"
    /\ call.content.private # <<>>
    /\ pc = "done"
    /\ outcome.kind = "return"
    /\ allowance = InitialAllowance
    /\ \E st \in IdxOf("update_asset_state"), ls \in IdxOf("local_store"),
          up \in IdxOf("update") :
        /\ ls = st + 1
        /\ up = ls + 2
        /\ Len(log) = up + 1
        /\ log[st].args.update_token_amount > 0

\* C16: the LocalStore payload has the public assertion as its first entry and
\* the private assertion as its second entry exactly when private content was
\* supplied; create tags every entry TRIPLE and update tags every entry PENDING;
\* all entries carry the same chain, contract and tokenId (of the mint event in
\* create, of the locator in update), and each entry's id is the root of its
\* content.
C16_LocalStorePayload ==
    \A i \in IdxOf("local_store") :
        LET entries == log[i].args
            tag == IF call.op = "create" THEN "TRIPLE" ELSE "PENDING"
        IN  /\ call.op \in {"create", "update"}
            /\ Len(entries) = IF call.content.private # <<>> THEN 2 ELSE 1
            /\ \A k \in DOMAIN entries :
                /\ entries[k].storeType = tag
                /\ entries[k].assertionId = Root(entries[k].assertion)
                /\ \E c \in IdxOf("chain_id") : entries[k].blockchain = log[c].val
                /\ call.op = "create" =>
                    \E a \in IdxOf("get_asset_storage_address"),
                       d \in IdxOf("decode_logs_event") :
                        /\ entries[k].contract = log[a].val
                        /\ entries[k].tokenId = log[d].val.tokenId
                /\ call.op = "update" =>
                    /\ entries[k].contract = parse_ual(call.ual).contract_address
                    /\ entries[k].tokenId = parse_ual(call.ual).token_id
            /\ PrivateLink(call.content.private) \in Statements(entries[1].assertion)
                   <=> call.content.private # <<>>
            /\ call.content.private # <<>> =>
                   entries[2].assertion = normalize_dataset(call.content.private).quads

C16_Witness ==
    /\ call.op = "update"
    /\ call.content = [public |-> <<1>>, private |-> <<3>>]
    /\ \E i \in IdxOf("local_store") :
        /\ Len(log[i].args) = 2
        /\ log[i].args[1].storeType = "PENDING"
        /\ log[i].args[2].storeType = "PENDING"
        /\ log[i].args[2].assertion = <<3>>
        /\ log[i].args[2].tokenId = 7

\* the ledger calls of create that carry a token amount, and the amount each carries
AmountCalls == IdxOf("increase_allowance") \cup IdxOf("create_asset")
                   \cup IdxOf("decrease_allowance")

AmountAt(i) == IF log[i].fn = "create_asset" THEN log[i].args.tokenAmount
               ELSE log[i].args.amount

\* C17: create uses a single token amount: with tokenAmount supplied the
\* bid-suggestion service is never queried and the amount is the caller's; with
\* tokenAmount omitted the service is queried exactly once, before any ledger
\* write, and the amount is the integer value of its answer; the allowance
\* increase, the mint write and the compensating decrease all carry that amount.
C17_SingleAmount ==
    call.op = "create" =>
        /\ Cardinality(IdxOf("bid_suggestion")) <= 1
        /\ call.token_amount # None =>
            /\ IdxOf("bid_suggestion") = {}
            /\ \A i \in AmountCalls : AmountAt(i) = call.token_amount
        /\ call.token_amount = None =>
            /\ pc # "c_bid" /\ log # <<>> => Cardinality(IdxOf("bid_suggestion")) = 1
            /\ \A i \in AmountCalls :
                \E b \in IdxOf("bid_suggestion") :
                    /\ b < i
                    /\ log[b].res = "ok"
                    /\ log[b].args.epochs = call.epochs_number
                    /\ AmountAt(i) = IntOf(log[b].val)
        /\ \A i, j \in AmountCalls : AmountAt(i) = AmountAt(j)

C17_Witness ==
    /\ call.op = "create"
    /\ call.token_amount = None
    /\ pc = "done"
    /\ \E b \in IdxOf("bid_suggestion"), a \in IdxOf("increase_allowance"),
          m \in IdxOf("create_asset"), d \in IdxOf("decrease_allowance") :
        /\ IntOf(log[b].val) > 0
        /\ log[a].args.amount = IntOf(log[b].val)
        /\ log[m].args.tokenAmount = IntOf(log[b].val)
        /\ log[d].args.amount = IntOf(log[b].val)

\* the error the stage logged last makes the call raise
FailureOf(i) ==
    IF log[i].res # "ok" THEN log[i].res
    ELSE IF log[i].fn = "get_operation_result" /\ FailedAt(i) THEN "OperationFailed"
    ELSE IF log[i].fn = "get_operation_result" /\ PendingAt(i) THEN "OperationNotFinished"
    ELSE ""

\* C18: create invokes the allowance decrease at most once, and only directly
\* after a mint write the ledger rejected; once the mint write succeeded no
\* decrease is ever issued: a failure of decoding the mint event, of the
\* LocalStore or Publish submission or of awaiting either is raised to the caller
\* as it is, and the allowance stays increased by the token amount.
C18_NoLateCompensation ==
    call.op = "create" =>
        /\ Cardinality(IdxOf("decrease_allowance")) <= 1
        /\ \A d \in IdxOf("decrease_allowance") : d > 1 /\ MintRejectedAt(d - 1)
        /\ \A m \in IdxOf("create_asset") : log[m].res = "ok" =>
            /\ IdxOf("decrease_allowance") = {}
            /\ allowance = InitialAllowance + log[m].args.tokenAmount
            /\ (pc = "done" /\ outcome.kind = "raise") =>
                /\ Len(log) > m
                /\ log[Len(log)].fn \in {"decode_logs_event", "local_store", "publish",
                                         "get_operation_result"}
                /\ outcome = Raise(FailureOf(Len(log)), "")
                /\ outcome.err # ""

C18_Witness ==
    /\ call.op = "create"
    /\ pc = "done"
    /\ outcome = Raise("OperationFailed", "")
    /\ IdxOf("decrease_allowance") = {}
    /\ IdxOf("publish") # {}
    /\ FailedAt(Len(log))
    /\ \E m \in IdxOf("create_asset") :
        /\ log[m].res = "ok"
        /\ log[m].args.tokenAmount > 0
        /\ allowance = InitialAllowance + log[m].args.tokenAmount

\* C20: in get with validate=false the integrity error is never raised, and a
\* get whose Get operation was observed Completed returns the served content
\* with the ledger's latest assertion id as assertionId, also when the Merkle
\* root of the served content differs from that id.
C20_UnvalidatedGet ==
    (call.op = "get" /\ ~call.validate) =>
        /\ outcome.err # "InvalidAsset"
        /\ \A i \in PollIdx :
            (GetCompletedAt(i) /\ Root(log[i].val.assertion) # to_hex(latestAssertionId)) =>
                /\ outcome.kind = "return"
                /\ outcome.assertionId = to_hex(latestAssertionId)
                /\ outcome.assertion = from_rdf(log[i].val.assertion)

Invocations == <<Locals, saved>>

IdxIn(l, fn) == {i \in DOMAIN l : l[i].fn = fn}

\* what an invocation added to, and took from, the ledger's allowance: the
\* amounts of its increase and decrease calls that the ledger carried out
Increased(c) ==
    IF \E i \in IdxIn(c.log, "increase_allowance") : c.log[i].res = "ok"
    THEN c.log[CHOOSE i \in IdxIn(c.log, "increase_allowance") : TRUE].args.amount
    ELSE 0

Decreased(c) ==
    IF \E i \in IdxIn(c.log, "decrease_allowance") : c.log[i].res = "ok"
    THEN c.log[CHOOSE i \in IdxIn(c.log, "decrease_allowance") : TRUE].args.amount
    ELSE 0

MintRejectedIn(c) ==
    \E i \in IdxIn(c.log, "create_asset") : c.log[i].res = "ContractLogicError"

DecreaseFailedIn(c) ==
    \E i \in IdxIn(c.log, "decrease_allowance") : c.log[i].res # "ok"

\* the error with which the collaborator call logged last ends a call
FailureIn(l) ==
    LET e == l[Len(l)] IN
    IF e.res # "ok" THEN e.res
    ELSE IF e.fn = "get_operation_result" /\ e.val.status = "FAILED" THEN "OperationFailed"
    ELSE IF e.fn = "get_operation_result" /\ e.val.status = "PENDING"
         THEN "OperationNotFinished"
    ELSE ""

\* what create, run alone, delivers for the arguments of invocation c when its
\* collaborators answer as c.log records
OutcomeAlone(c) ==
    LET a == ProcessContent(c.call.content)
        l == c.log
        n == Len(l)
    IN  IF a.err # "" THEN Raise(a.err, "")
        ELSE IF l[n].fn = "decrease_allowance"
        THEN IF l[n].res = "ok" THEN Raise(l[n - 1].res, "")
             ELSE Raise(l[n].res, l[n - 1].res)
        ELSE IF FailureIn(l) # "" THEN Raise(FailureIn(l), "")
        ELSE [NoOutcome EXCEPT
                !.kind = "return",
                !.UAL = format_ual(l[CHOOSE i \in IdxIn(l, "chain_id") : TRUE].val,
                                   l[CHOOSE i \in IdxIn(l, "get_asset_storage_address") : TRUE].val,
                                   l[CHOOSE i \in IdxIn(l, "decode_logs_event") : TRUE].val.tokenId),
                !.assertionId = a.public.id,
                !.operationId = l[CHOOSE i \in IdxIn(l, "publish") : TRUE].val,
                !.status = l[n].val.status]

AllFinished == \A k \in 1..2 : Invocations[k].pc = "done"

\* C19 as stated: once all concurrent create calls have finished and every
\* compensating decrease succeeded, increases minus decreases equals the sum of
\* the tokenAmounts of exactly the calls whose mint write was not rejected, and
\* each call's outcome is the one it produces alone.
C19_Original ==
    (AllFinished /\ \A k \in 1..2 : ~DecreaseFailedIn(Invocations[k])) =>
        LET Kept(c) == IF MintRejectedIn(c) THEN 0 ELSE c.call.token_amount
        IN  /\ Increased(Locals) + Increased(saved) - Decreased(Locals) - Decreased(saved)
                 = Kept(Locals) + Kept(saved)
            /\ \A k \in 1..2 : Invocations[k].outcome = OutcomeAlone(Invocations[k])

\* C19 amended: in every interleaving of two concurrent create calls, once both
\* have finished and every compensating decrease succeeded, the allowance has
\* grown by the increases less the decreases carried out, and that equals the sum
\* of the tokenAmounts of exactly the calls whose allowance increase succeeded
\* and whose mint write was not rejected (a call that failed before or at its
\* increase adds nothing); each call's result or error is the one it produces
\* alone with the same collaborator responses.
C19_Interleaving ==
    (AllFinished /\ \A k \in 1..2 : ~DecreaseFailedIn(Invocations[k])) =>
        LET Kept(c) == IF Increased(c) > 0 /\ ~MintRejectedIn(c)
                       THEN c.call.token_amount ELSE 0
        IN  /\ Increased(Locals) + Increased(saved) - Decreased(Locals) - Decreased(saved)
                 = Kept(Locals) + Kept(saved)
            /\ allowance = InitialAllowance + Kept(Locals) + Kept(saved)
            /\ \A k \in 1..2 :
                /\ Invocations[k].call.op = "create"
                /\ Invocations[k].outcome = OutcomeAlone(Invocations[k])

\* two calls with different amounts have finished: the mint of one was rejected
\* and compensated, the other returned and its increase stays
C19_Witness ==
    /\ AllFinished
    /\ MintRejectedIn(Locals)
    /\ Decreased(Locals) = 2
    /\ ~MintRejectedIn(saved)
    /\ Increased(saved) = 1
    /\ saved.outcome.kind = "return"
    /\ outcome = Raise("ContractLogicError", "")
    /\ allowance = InitialAllowance + 1

====
